---- MODULE Spec2Model ----
(***************************************************************************)
(* GenericTaskRunHistogram (metrics-operator/pkg/metrics/recorder):        *)
(* construction, Record, Clean, ParseDuration and parseTime.               *)
(*                                                                         *)
(* Representation.                                                         *)
(*  - A *metav1.Time result is <<>> (nil) or <<t>> (a pointer to t).        *)
(*  - An instant t is an integer number of 30-second ticks since Go's zero *)
(*    time (0001-01-01T00:00:00Z); a time.Duration is a number of the same *)
(*    ticks, so that year 1 and year 2024 both fit TLC's 32-bit integers   *)
(*    and the range of time.Duration (about 292 years) keeps its place     *)
(*    between them.  A measurement's value is kept in ticks (3 ticks are   *)
(*    the 90 seconds of the spec's scenario).                              *)
(*  - An error is a record [msg, n]; NilErr is Go's nil error.             *)
(*  - The jsonpath package is a collaborator: whether a template parses    *)
(*    and what FindResults returns for a record are inputs of the model.   *)
(***************************************************************************)
EXTENDS Naturals, Integers, Sequences, FiniteSets, Bags, TLC

VARIABLES g, views, backend, log, ncalls, cur, pc, call, loc

vars == <<g, views, backend, log, ncalls, cur, pc, call, loc>>

(* ------------------------------ bounds --------------------------------- *)

MaxCalls == 2

NumWorkers == 2

(* ------------------------- values and errors --------------------------- *)

NilTime == <<>>

NilErr == [msg |-> "nil", n |-> 0]

Err(m, k) == [msg |-> m, n |-> k]

ZeroTime == 0

Y2024 == 738885 * 2880

maxDuration == 153722867 * 2

minDuration == 0 - maxDuration

Sub_Swapped(t, u) ==
    LET d == u - t
    IN  IF d > maxDuration THEN maxDuration
        ELSE IF d < minDuration THEN minDuration
        ELSE d

\* time.Time.Sub as called by Record: t - u, saturated to the Duration range
Sub(t, u) ==
    LET d == t - u
    IN  IF d > maxDuration THEN maxDuration
        ELSE IF d < minDuration THEN minDuration
        ELSE d

\* dynamic types a matched field can have; "string" stands for every type
\* parseTime's switch does not list
WrappedPtr == "*metav1.Time"

WrappedVal == "metav1.Time"

PlainVal == "time.Time"

PlainPtr == "*time.Time"

OtherType == "string"

Val(ty, p) == [type |-> ty, p |-> p]

Values ==
    {Val(WrappedPtr, <<>>), Val(WrappedPtr, <<Y2024>>), Val(WrappedPtr, <<Y2024 + 3>>),
     Val(WrappedVal, <<ZeroTime>>), Val(WrappedVal, <<Y2024>>),
     Val(PlainVal, <<Y2024 + 3>>),
     Val(PlainPtr, <<>>), Val(PlainPtr, <<Y2024>>),
     Val(OtherType, <<>>)}

(* ------------------------------ parseTime ------------------------------ *)

WrongType(field) == Err("could not parse '" \o field \o "' duration, wrong type", 0)

parseTime_NilIsError(field, value) ==
    CASE value.type \in {WrappedPtr, PlainPtr} ->
            IF value.p = <<>> THEN [t |-> NilTime, err |-> Err("nil timestamp", 0)]
            ELSE [t |-> value.p, err |-> NilErr]
      [] value.type \in {WrappedVal, PlainVal} -> [t |-> value.p, err |-> NilErr]
      [] OTHER -> [t |-> NilTime, err |-> WrongType(field)]

parseTime_AcceptsAny(field, value) ==
    CASE value.type \in {WrappedPtr, PlainPtr, WrappedVal, PlainVal} ->
            [t |-> value.p, err |-> NilErr]
      [] OTHER -> [t |-> <<ZeroTime>>, err |-> NilErr]

parseTime(field, value) ==
    CASE value.type = WrappedPtr -> [t |-> value.p, err |-> NilErr]
      [] value.type = WrappedVal -> [t |-> value.p, err |-> NilErr]
      [] value.type = PlainVal   -> [t |-> value.p, err |-> NilErr]
      [] value.type = PlainPtr   ->
            IF value.p = <<>> THEN [t |-> NilTime, err |-> NilErr]
            ELSE [t |-> value.p, err |-> NilErr]
      [] OTHER -> [t |-> NilTime, err |-> WrongType(field)]

(* --------------------- jsonpath, as seen by the code -------------------- *)

StartExpr == ".status.startTime"

EndExpr == ".status.completionTime"

BadExpr == ".status["

PodExpr == ".status.podName"

\* fmt.Sprintf("{%s}{%s}", duration.From, duration.To)
templateFrom(duration) == "{" \o duration.From \o "}{" \o duration.To \o "}"

\* j.Parse(template): the parser rejects a template with an unclosed bracket
ParseFails(template) == template \in {templateFrom([From |-> a, To |-> b]) :
                                        <<a, b>> \in {<<BadExpr, EndExpr>>, <<StartExpr, BadExpr>>}}

\* j.FindResults(input): a lookup error, or one slot of matches per template node
FindResults(input) == input.found

SlotsOver(vals) == {<<>>} \cup {<<v>> : v \in vals}
            \cup {<<Val(WrappedPtr, <<Y2024>>), Val(WrappedPtr, <<Y2024 + 3>>)>>}

OneMatch == <<Val(WrappedPtr, <<Y2024>>)>>

ResultSetsOver(vals) == {<<>>, <<OneMatch>>, <<OneMatch, OneMatch, OneMatch>>}
                 \cup {<<a, b>> : a \in SlotsOver(vals), b \in SlotsOver(vals)}

FindOutcomesOver(vals) == {[err |-> Err("is not found", 0), results |-> <<>>]}
                   \cup {[err |-> NilErr, results |-> r] : r \in ResultSetsOver(vals)}

(* ----------------------------- ParseDuration ---------------------------- *)

Failed(e) == [from |-> NilTime, to |-> NilTime, err |-> e]

ParseDuration_FirstOfMany(duration, input) ==
    IF ParseFails(templateFrom(duration))
    THEN Failed(Err("unclosed array expect ]", 0))
    ELSE LET found == FindResults(input)
             results == found.results
         IN  IF found.err # NilErr THEN Failed(found.err)
             ELSE IF Len(results) # 2
             THEN Failed(Err("unable to parse duration, got %d results", Len(results)))
             ELSE IF Len(results[1]) = 0
             THEN Failed(Err("unable to parse 'from' duration, got %d results", Len(results[1])))
             ELSE IF Len(results[2]) # 1
             THEN Failed(Err("unable to parse 'to' duration, got %d results", Len(results[2])))
             ELSE LET from == parseTime("from", results[1][1])
                  IN  IF from.err # NilErr THEN Failed(from.err)
                      ELSE LET to == parseTime("to", results[2][1])
                           IN  IF to.err # NilErr THEN Failed(to.err)
                               ELSE [from |-> from.t, to |-> to.t, err |-> NilErr]

ParseDuration_KeepsFrom(duration, input) ==
    IF ParseFails(templateFrom(duration))
    THEN Failed(Err("unclosed array expect ]", 0))
    ELSE LET found == FindResults(input)
             results == found.results
         IN  IF found.err # NilErr THEN Failed(found.err)
             ELSE IF Len(results) # 2
             THEN Failed(Err("unable to parse duration, got %d results", Len(results)))
             ELSE IF Len(results[1]) # 1
             THEN Failed(Err("unable to parse 'from' duration, got %d results", Len(results[1])))
             ELSE IF Len(results[2]) # 1
             THEN Failed(Err("unable to parse 'to' duration, got %d results", Len(results[2])))
             ELSE LET from == parseTime("from", results[1][1])
                  IN  IF from.err # NilErr THEN Failed(from.err)
                      ELSE LET to == parseTime("to", results[2][1])
                           IN  IF to.err # NilErr
                               THEN [from |-> from.t, to |-> NilTime, err |-> to.err]
                               ELSE [from |-> from.t, to |-> to.t, err |-> NilErr]

ParseDuration(duration, input) ==
    IF ParseFails(templateFrom(duration))
    THEN Failed(Err("unclosed array expect ]", 0))
    ELSE LET found == FindResults(input)
             results == found.results
         IN  IF found.err # NilErr THEN Failed(found.err)
             ELSE IF Len(results) # 2
             THEN Failed(Err("unable to parse duration, got %d results", Len(results)))
             ELSE IF Len(results[1]) # 1
             THEN Failed(Err("unable to parse 'from' duration, got %d results", Len(results[1])))
             ELSE IF Len(results[2]) # 1
             THEN Failed(Err("unable to parse 'to' duration, got %d results", Len(results[2])))
             ELSE LET from == parseTime("from", results[1][1])
                  IN  IF from.err # NilErr THEN Failed(from.err)
                      ELSE LET to == parseTime("to", results[2][1])
                           IN  IF to.err # NilErr THEN Failed(to.err)
                               ELSE [from |-> from.t, to |-> to.t, err |-> NilErr]

(* ------------------- metric configuration and records ------------------- *)

Durations == {[From |-> StartExpr, To |-> EndExpr], [From |-> StartExpr, To |-> BadExpr]}

TaskMetrics == {[Name |-> "duration", By |-> by, Duration |-> d] :
                   by \in {<<>>, <<PodExpr>>}, d \in Durations}

FieldMatches == {<<>>, <<"pod-a">>, <<"pod-a", "pod-b">>}

RunsOver(vals) == {[fields |-> [e \in {PodExpr} |-> m], found |-> f] :
                      m \in FieldMatches, f \in FindOutcomesOver(vals)}

\* the records Record and Clean are called with
TaskRuns == RunsOver({Val(WrappedPtr, <<>>), Val(WrappedPtr, <<Y2024>>),
                      Val(WrappedPtr, <<Y2024 + 3>>), Val(WrappedVal, <<ZeroTime>>),
                      Val(PlainPtr, <<>>), Val(OtherType, <<>>)})

\* the inputs ParseDuration is called with directly
Inputs == RunsOver(Values)

\* naming.HistogramMetric: one name per (resource, monitor, metric name)
HistogramMetric(resource, monitor, name) == <<"histogram", resource, monitor, name>>

\* the label key of a By expression
TagKey(expr) == expr

\* viewTags: the ordered label-key schema of the By list
viewTags(by) == [i \in 1..Len(by) |-> TagKey(by[i])]

\* tagMapFromByStatements: every By expression must match exactly one field
tagMapFromByStatements(by, taskRun) ==
    IF \A i \in 1..Len(by) : Len(taskRun.fields[by[i]]) = 1
    THEN [tags |-> [i \in 1..Len(by) |-> <<TagKey(by[i]), taskRun.fields[by[i]][1]>>],
          err |-> NilErr]
    ELSE [tags |-> <<>>, err |-> Err("invalid tag map", 0)]

(* ----------------------------- construction ----------------------------- *)

\* bucket boundaries in hundredths: .25, .5, 1, 2.5, ..., 10000
buckets == <<25, 50, 100, 250, 500, 1000, 2500, 5000, 10000, 25000, 50000,
             100000, 250000, 500000, 1000000>>

Float64(name, description, unit) == [name |-> name, description |-> description, unit |-> unit]

MetricName(gg) == HistogramMetric(gg.Resource, gg.Monitor, gg.TaskMetric.Name)

MetricType(gg) == "histogram"

MonitorName(gg) == gg.Monitor

View(gg) == gg.view

New_DropsLastBucket(metric, resource, monitorName) ==
    LET histogram == [Resource |-> resource, Monitor |-> monitorName, TaskMetric |-> metric]
        measure == Float64(MetricName(histogram),
                           <<"histogram samples in seconds for TaskMonitor",
                             histogram.Monitor, histogram.TaskMetric.Name>>,
                           "s")
        view == [Description |-> measure.description,
                 Measure     |-> measure,
                 Aggregation |-> [type |-> "distribution", bounds |-> SubSeq(buckets, 1, Len(buckets) - 1)],
                 TagKeys     |-> viewTags(metric.By)]
    IN  [Resource |-> resource, Monitor |-> monitorName, TaskMetric |-> metric,
         view |-> view, measure |-> measure]

NewGenericTaskRunHistogram(metric, resource, monitorName) ==
    LET histogram == [Resource |-> resource, Monitor |-> monitorName, TaskMetric |-> metric]
        measure == Float64(MetricName(histogram),
                           <<"histogram samples in seconds for TaskMonitor",
                             histogram.Monitor, histogram.TaskMetric.Name>>,
                           "s")
        view == [Description |-> measure.description,
                 Measure     |-> measure,
                 Aggregation |-> [type |-> "distribution", bounds |-> buckets],
                 TagKeys     |-> viewTags(metric.By)]
    IN  [Resource |-> resource, Monitor |-> monitorName, TaskMetric |-> metric,
         view |-> view, measure |-> measure]

(* -------------------------------- Record -------------------------------- *)

\* logger := logging.FromContext(ctx).With("resource", ..., "monitor", ..., "metric", ...)
Entry(gg, level, msg) ==
    [level |-> level, msg |-> msg, resource |-> gg.Resource, monitor |-> gg.Monitor,
     metric |-> gg.TaskMetric.Name]

\* g.measure.M(duration) recorded under tagMap
Measurement(gg, tagMap, duration) ==
    [tags |-> tagMap, measure |-> gg.measure.name, value |-> duration]

RecordEffect_ZeroOnMissing(gg, taskRun) ==
    LET tm == tagMapFromByStatements(gg.TaskMetric.By, taskRun)
        pd == ParseDuration(gg.TaskMetric.Duration, taskRun)
    IN  IF tm.err # NilErr
        THEN [logs |-> <<Entry(gg, "error", "error recording value, invalid tag map")>>,
              emits |-> <<>>]
        ELSE IF pd.err # NilErr
        THEN [logs |-> <<Entry(gg, "error", "error parsing duration")>>, emits |-> <<>>]
        ELSE IF pd.from = NilTime \/ pd.to = NilTime
        THEN [logs |-> <<Entry(gg, "info", "missing duration timestamp")>>,
              emits |-> <<Measurement(gg, tm.tags, 0)>>]
        ELSE [logs |-> <<>>,
              emits |-> <<Measurement(gg, tm.tags, Sub(pd.to[1], pd.from[1]))>>]

RecordEffect_ErrorOnMissing(gg, taskRun) ==
    LET tm == tagMapFromByStatements(gg.TaskMetric.By, taskRun)
        pd == ParseDuration(gg.TaskMetric.Duration, taskRun)
    IN  IF tm.err # NilErr
        THEN [logs |-> <<Entry(gg, "error", "error recording value, invalid tag map")>>,
              emits |-> <<>>]
        ELSE IF pd.err # NilErr
        THEN [logs |-> <<Entry(gg, "error", "error parsing duration")>>, emits |-> <<>>]
        ELSE IF pd.from = NilTime \/ pd.to = NilTime
        THEN [logs |-> <<Entry(gg, "error", "missing duration timestamp")>>, emits |-> <<>>]
        ELSE [logs |-> <<>>,
              emits |-> <<Measurement(gg, tm.tags, Sub(pd.to[1], pd.from[1]))>>]

\* what one Record call writes: its log entries and its backend Record calls
RecordEffect(gg, taskRun) ==
    LET tm == tagMapFromByStatements(gg.TaskMetric.By, taskRun)
        pd == ParseDuration(gg.TaskMetric.Duration, taskRun)
    IN  IF tm.err # NilErr
        THEN [logs |-> <<Entry(gg, "error", "error recording value, invalid tag map")>>,
              emits |-> <<>>]
        ELSE IF pd.err # NilErr
        THEN [logs |-> <<Entry(gg, "error", "error parsing duration")>>, emits |-> <<>>]
        ELSE IF pd.from = NilTime \/ pd.to = NilTime
        THEN [logs |-> <<Entry(gg, "info", "missing duration timestamp")>>, emits |-> <<>>]
        ELSE [logs |-> <<>>,
              emits |-> <<Measurement(gg, tm.tags, Sub(pd.to[1], pd.from[1]))>>]

(* ------------------------ calls, one at a time -------------------------- *)

Workers == 1..NumWorkers

Idle == [op |-> "none"]

NoLocals == [tagMap |-> <<>>, from |-> NilTime, to |-> NilTime]

Init ==
    /\ \E m \in TaskMetrics : g = NewGenericTaskRunHistogram(m, "taskrun", "monitor-a")
    /\ views = {}
    /\ backend = <<>>
    /\ log = <<>>
    /\ ncalls = 0
    /\ cur = [op |-> "New"]
    /\ pc = [w \in Workers |-> "idle"]
    /\ call = [w \in Workers |-> Idle]
    /\ loc = [w \in Workers |-> NoLocals]

Record(taskRun) ==
    /\ ncalls < MaxCalls
    /\ LET eff == RecordEffect(g, taskRun)
       IN  /\ log' = log \o eff.logs
           /\ backend' = backend \o eff.emits
    /\ ncalls' = ncalls + 1
    /\ cur' = [op |-> "Record", taskRun |-> taskRun]
    /\ UNCHANGED <<g, views, pc, call, loc>>

Clean_Retracts(taskRun) ==
    /\ ncalls < MaxCalls
    /\ ncalls' = ncalls + 1
    /\ cur' = [op |-> "Clean", taskRun |-> taskRun]
    /\ backend' = IF backend = <<>> THEN backend ELSE SubSeq(backend, 1, Len(backend) - 1)
    /\ UNCHANGED <<g, views, log, pc, call, loc>>

Clean(taskRun) ==
    /\ ncalls < MaxCalls
    /\ ncalls' = ncalls + 1
    /\ cur' = [op |-> "Clean", taskRun |-> taskRun]
    /\ UNCHANGED <<g, views, backend, log, pc, call, loc>>

\* a direct call of the exported ParseDuration
CallParseDuration(duration, input) ==
    /\ cur' = [op |-> "ParseDuration", duration |-> duration, input |-> input,
               res |-> ParseDuration(duration, input)]
    /\ UNCHANGED <<g, views, backend, log, ncalls, pc, call, loc>>

\* a call of parseTime on one matched value
CallParseTime(field, value) ==
    /\ cur' = [op |-> "parseTime", field |-> field, value |-> value,
               res |-> parseTime(field, value)]
    /\ UNCHANGED <<g, views, backend, log, ncalls, pc, call, loc>>

Next ==
    \/ \E r \in TaskRuns : Record(r)
    \/ \E r \in TaskRuns : Clean(r)

Spec == Init /\ [][Next]_vars

NextParse ==
    \/ \E d \in Durations, r \in Inputs : CallParseDuration(d, r)
    \/ \E f \in {"from", "to"}, v \in Values : CallParseTime(f, v)

SpecParse == Init /\ [][NextParse]_vars

(* --------------------- concurrent calls, step by step ------------------- *)

Run(m, from, to) == [fields |-> [e \in {PodExpr} |-> m],
                     found |-> [err |-> NilErr, results |-> <<from, to>>]]

\* the records the concurrent workers observe: a finished run, a run with a
\* zero start time, a run in progress, a mistyped field, a missing label, a
\* field that is not found
ConcRuns ==
    {Run(<<"pod-a">>, <<Val(WrappedPtr, <<Y2024>>)>>, <<Val(WrappedPtr, <<Y2024 + 3>>)>>),
     Run(<<"pod-a">>, <<Val(WrappedVal, <<ZeroTime>>)>>, <<Val(WrappedPtr, <<Y2024>>)>>),
     Run(<<"pod-a">>, <<Val(WrappedPtr, <<Y2024>>)>>, <<Val(WrappedPtr, <<>>)>>),
     Run(<<"pod-a">>, <<Val(WrappedPtr, <<Y2024>>)>>, <<Val(OtherType, <<>>)>>),
     Run(<<>>, <<Val(WrappedPtr, <<Y2024>>)>>, <<Val(WrappedPtr, <<Y2024 + 3>>)>>),
     [fields |-> [e \in {PodExpr} |-> <<"pod-a">>],
      found |-> [err |-> Err("is not found", 0), results |-> <<>>]]}

\* Record is entered: the logger is derived from the context
WRecord(w, taskRun) ==
    /\ pc[w] = "idle"
    /\ call' = [call EXCEPT ![w] = [op |-> "Record", taskRun |-> taskRun]]
    /\ pc' = [pc EXCEPT ![w] = "tags"]
    /\ UNCHANGED <<g, views, backend, log, ncalls, cur, loc>>

\* tagMap, err := tagMapFromByStatements(...)
WTags(w) ==
    /\ pc[w] = "tags"
    /\ LET tm == tagMapFromByStatements(g.TaskMetric.By, call[w].taskRun)
       IN  IF tm.err # NilErr
           THEN /\ log' = Append(log, Entry(g, "error", "error recording value, invalid tag map"))
                /\ pc' = [pc EXCEPT ![w] = "done"]
                /\ loc' = loc
           ELSE /\ loc' = [loc EXCEPT ![w].tagMap = tm.tags]
                /\ pc' = [pc EXCEPT ![w] = "parse"]
                /\ log' = log
    /\ UNCHANGED <<g, views, backend, ncalls, cur, call>>

\* from, to, err := ParseDuration(...)
WParse(w) ==
    /\ pc[w] = "parse"
    /\ LET pd == ParseDuration(g.TaskMetric.Duration, call[w].taskRun)
       IN  IF pd.err # NilErr
           THEN /\ log' = Append(log, Entry(g, "error", "error parsing duration"))
                /\ pc' = [pc EXCEPT ![w] = "done"]
                /\ loc' = loc
           ELSE /\ loc' = [loc EXCEPT ![w].from = pd.from, ![w].to = pd.to]
                /\ pc' = [pc EXCEPT ![w] = "check"]
                /\ log' = log
    /\ UNCHANGED <<g, views, backend, ncalls, cur, call>>

\* if from == nil || to == nil
WCheck(w) ==
    /\ pc[w] = "check"
    /\ IF loc[w].from = NilTime \/ loc[w].to = NilTime
       THEN /\ log' = Append(log, Entry(g, "info", "missing duration timestamp"))
            /\ pc' = [pc EXCEPT ![w] = "done"]
       ELSE /\ pc' = [pc EXCEPT ![w] = "emit"]
            /\ log' = log
    /\ UNCHANGED <<g, views, backend, ncalls, cur, call, loc>>

WEmit_SharedSlot(w) ==
    /\ pc[w] = "emit"
    /\ LET shared == IF loc[1].from = NilTime \/ loc[1].to = NilTime THEN loc[w] ELSE loc[1]
       IN  backend' = Append(backend,
                             Measurement(g, loc[w].tagMap, Sub(shared.to[1], shared.from[1])))
    /\ pc' = [pc EXCEPT ![w] = "done"]
    /\ UNCHANGED <<g, views, log, ncalls, cur, call, loc>>

\* duration := to.Sub(from.Time).Seconds(); recorder.Record(...)
WEmit(w) ==
    /\ pc[w] = "emit"
    /\ backend' = Append(backend,
                         Measurement(g, loc[w].tagMap, Sub(loc[w].to[1], loc[w].from[1])))
    /\ pc' = [pc EXCEPT ![w] = "done"]
    /\ UNCHANGED <<g, views, log, ncalls, cur, call, loc>>

\* Clean: an empty body
WClean(w, taskRun) ==
    /\ pc[w] = "idle"
    /\ call' = [call EXCEPT ![w] = [op |-> "Clean", taskRun |-> taskRun]]
    /\ pc' = [pc EXCEPT ![w] = "done"]
    /\ UNCHANGED <<g, views, backend, log, ncalls, cur, loc>>

NextConc ==
    \/ \E w \in Workers, r \in ConcRuns : WRecord(w, r)
    \/ \E w \in Workers : WTags(w)
    \/ \E w \in Workers : WParse(w)
    \/ \E w \in Workers : WCheck(w)
    \/ \E w \in Workers : WEmit(w)
    \/ \E w \in Workers, r \in ConcRuns : WClean(w, r)

SpecConc == Init /\ [][NextConc]_vars

(* ======================= properties of single calls ===================== *)

TagsOf(gg, r) == tagMapFromByStatements(gg.TaskMetric.By, r)

DurationOf(gg, r) == ParseDuration(gg.TaskMetric.Duration, r)

\* the three conditions under which Record reaches the backend
Resolved(gg, r) ==
    /\ TagsOf(gg, r).err = NilErr
    /\ DurationOf(gg, r).err = NilErr
    /\ DurationOf(gg, r).from # NilTime
    /\ DurationOf(gg, r).to # NilTime

LastEmit == backend[Len(backend)]

\* C1: a Record call makes exactly one backend Record call when the tag map
\* builds, ParseDuration returns no error and both timestamps are non-nil,
\* and makes none in every other case.
C1_EmitsIffResolved ==
    [][cur'.op = "Record" =>
          IF Resolved(g, cur'.taskRun)
          THEN Len(backend') = Len(backend) + 1 /\ SubSeq(backend', 1, Len(backend)) = backend
          ELSE backend' = backend]_vars

C1_Witness ==
    /\ cur.op = "Record"
    /\ ncalls = 2
    /\ Resolved(g, cur.taskRun)
    /\ Len(backend) = 1

\* C2 as stated: with both timestamps present and to >= from, the value Record
\* forwards equals to - from and is non-negative.
C2_Original ==
    (cur.op = "Record" /\ Resolved(g, cur.taskRun)) =>
        LET from == DurationOf(g, cur.taskRun).from[1]
            to == DurationOf(g, cur.taskRun).to[1]
        IN  to >= from => LastEmit.value = to - from /\ LastEmit.value >= 0

\* C2 amended: with both timestamps present and to >= from, the forwarded value
\* is non-negative and equals to - from whenever to - from fits a time.Duration;
\* a larger difference is forwarded as the largest Duration.
C2_DurationWithinRange ==
    (cur.op = "Record" /\ Resolved(g, cur.taskRun)) =>
        LET from == DurationOf(g, cur.taskRun).from[1]
            to == DurationOf(g, cur.taskRun).to[1]
        IN  to >= from =>
               /\ LastEmit.value >= 0
               /\ to - from <= maxDuration => LastEmit.value = to - from
               /\ to - from > maxDuration => LastEmit.value = maxDuration

\* from 2024-01-01T00:00:00Z to 2024-01-01T00:01:30Z: three ticks, 90 seconds
C2_Witness ==
    /\ cur.op = "Record"
    /\ Resolved(g, cur.taskRun)
    /\ DurationOf(g, cur.taskRun).from = <<Y2024>>
    /\ DurationOf(g, cur.taskRun).to = <<Y2024 + 3>>
    /\ LastEmit.value = 3
    /\ LastEmit.value * 30 = 90

\* the first failing step of a Record call that is not Resolved
FirstFailure(gg, r) ==
    IF TagsOf(gg, r).err # NilErr THEN "tags"
    ELSE IF DurationOf(gg, r).err # NilErr THEN "duration"
    ELSE "absent"

\* C6: a Record call that emits nothing writes exactly one log entry, at error
\* level for a tag-map failure or a ParseDuration error and at informational
\* level ("missing duration timestamp") for an absent timestamp; a Record call
\* that emits writes none.
C6_OneLogEntryPerSkip ==
    [][cur'.op = "Record" =>
          IF Resolved(g, cur'.taskRun)
          THEN log' = log
          ELSE /\ Len(log') = Len(log) + 1
               /\ SubSeq(log', 1, Len(log)) = log
               /\ LET e == log'[Len(log')]
                      f == FirstFailure(g, cur'.taskRun)
                  IN  /\ f \in {"tags", "duration"} => e.level = "error"
                      /\ f = "tags" => e.msg = "error recording value, invalid tag map"
                      /\ f = "duration" => e.msg = "error parsing duration"
                      /\ f = "absent" => e.level = "info" /\ e.msg = "missing duration timestamp"
                      /\ e.resource = g.Resource /\ e.monitor = g.Monitor]_vars

C6_Witness ==
    /\ cur.op = "Record"
    /\ ~Resolved(g, cur.taskRun)
    /\ FirstFailure(g, cur.taskRun) = "absent"
    /\ log # <<>>
    /\ log[Len(log)].level = "info"
    /\ backend = <<>>

\* C8: Clean calls no backend primitive, writes no log entry and leaves every
\* field of the metric unchanged.
C8_CleanIsNoOp ==
    [][cur'.op = "Clean" => UNCHANGED <<g, views, backend, log>>]_vars

C8_Witness ==
    /\ cur.op = "Clean"
    /\ ncalls = 2
    /\ Len(backend) = 1
    /\ Len(log) = 0

StrictlyIncreasing(seq) == \A i \in 1..(Len(seq) - 1) : seq[i] < seq[i + 1]

Constructed ==
    /\ g.measure.name = MetricName(g)
    /\ g.measure.name = HistogramMetric(g.Resource, g.Monitor, g.TaskMetric.Name)
    /\ View(g).Measure = g.measure
    /\ View(g).Description = g.measure.description
    /\ View(g).Aggregation.type = "distribution"
    /\ Len(View(g).Aggregation.bounds) = 15
    /\ StrictlyIncreasing(View(g).Aggregation.bounds)
    /\ View(g).Aggregation.bounds[1] = 25
    /\ View(g).Aggregation.bounds[15] = 1000000
    /\ View(g).TagKeys = viewTags(g.TaskMetric.By)
    /\ MetricType(g) = "histogram"

IsParseDurationCall == cur.op = "ParseDuration"

\* the call got as far as two result slots
TwoSlots ==
    /\ IsParseDurationCall
    /\ ~ParseFails(templateFrom(cur.duration))
    /\ FindResults(cur.input).err = NilErr
    /\ Len(FindResults(cur.input).results) = 2

Slot(i) == FindResults(cur.input).results[i]

IsNilPointer(v) == v.type \in {WrappedPtr, PlainPtr} /\ v.p = <<>>

IsTimestampType(v) == v.type \in {WrappedPtr, WrappedVal, PlainVal, PlainPtr}

\* side i resolved to one field, and that field is a null timestamp pointer
NilSide(i) == TwoSlots /\ Len(Slot(i)) = 1 /\ IsNilPointer(Slot(i)[1])

\* side i resolved to one field of a recognized timestamp type
GoodSide(i) == TwoSlots /\ Len(Slot(i)) = 1 /\ IsTimestampType(Slot(i)[1])

\* C3 as stated: when either side's resolved field is a null timestamp pointer,
\* ParseDuration returns a nil error, whatever the other side resolves to.
C3_Original ==
    (NilSide(1) \/ NilSide(2)) => cur.res.err = NilErr

\* C3 amended: when a side's resolved field is a null timestamp pointer and the
\* other side resolves to exactly one field of a recognized timestamp type,
\* ParseDuration returns a nil error with the null side's timestamp nil; when
\* the other side does not, ParseDuration returns an error.
C3_NilPointerIsAbsent ==
    /\ (NilSide(1) /\ GoodSide(2)) => cur.res.err = NilErr /\ cur.res.from = NilTime
    /\ (NilSide(2) /\ GoodSide(1)) => cur.res.err = NilErr /\ cur.res.to = NilTime
    /\ (NilSide(1) /\ ~GoodSide(2)) => cur.res.err # NilErr
    /\ (NilSide(2) /\ ~GoodSide(1)) => cur.res.err # NilErr

C3_Witness ==
    /\ NilSide(2)
    /\ GoodSide(1)
    /\ Slot(2)[1].type = WrappedPtr
    /\ cur.res = [from |-> <<Y2024>>, to |-> NilTime, err |-> NilErr]

ResultsMsg == "unable to parse duration, got %d results"

FromMsg == "unable to parse 'from' duration, got %d results"

ToMsg == "unable to parse 'to' duration, got %d results"

\* C4: when the "from" or the "to" expression matches zero fields or several,
\* ParseDuration returns an error and two nil timestamps, and the three
\* cardinality checks (slots, "from" matches, "to" matches) report three
\* different errors.
C4_CardinalityErrors ==
    IsParseDurationCall /\ ~ParseFails(templateFrom(cur.duration)) =>
        LET found == FindResults(cur.input)
            res == cur.res
        IN  /\ found.err # NilErr => res = Failed(found.err)
            /\ (found.err = NilErr /\ Len(found.results) # 2) =>
                  res = Failed(Err(ResultsMsg, Len(found.results)))
            /\ (TwoSlots /\ Len(Slot(1)) # 1) => res = Failed(Err(FromMsg, Len(Slot(1))))
            /\ (TwoSlots /\ Len(Slot(1)) = 1 /\ Len(Slot(2)) # 1) =>
                  res = Failed(Err(ToMsg, Len(Slot(2))))
            /\ (TwoSlots /\ (Len(Slot(1)) # 1 \/ Len(Slot(2)) # 1)) =>
                  res.err # NilErr /\ res.from = NilTime /\ res.to = NilTime
            /\ Cardinality({ResultsMsg, FromMsg, ToMsg}) = 3

C4_Witness ==
    /\ TwoSlots
    /\ Len(Slot(1)) = 2
    /\ Len(Slot(2)) = 1
    /\ cur.res = Failed(Err(FromMsg, 2))

\* C5: parseTime classifies every dynamic type: a timestamp value is present
\* with no error, a timestamp pointer is present when non-null and absent with
\* no error when null, any other type is a "wrong type" error with a nil
\* timestamp, and no value yields both a timestamp and an error.
C5_TotalClassification ==
    cur.op = "parseTime" =>
        LET v == cur.value
            r == cur.res
        IN  /\ v.type \in {WrappedVal, PlainVal} => r.err = NilErr /\ r.t = v.p /\ r.t # NilTime
            /\ v.type \in {WrappedPtr, PlainPtr} =>
                  /\ r.err = NilErr
                  /\ v.p = <<>> => r.t = NilTime
                  /\ v.p # <<>> => r.t = v.p
            /\ ~IsTimestampType(v) => r.err = WrongType(cur.field) /\ r.t = NilTime
            /\ ~(r.t # NilTime /\ r.err # NilErr)

C5_Witness ==
    /\ cur.op = "parseTime"
    /\ ~IsTimestampType(cur.value)
    /\ cur.res.err # NilErr
    /\ cur.res.t = NilTime

\* C10: ParseDuration never returns an error together with a non-nil timestamp,
\* also when "from" normalized and "to" then failed; and when both sides fail
\* normalization the error returned is the one of "from".
C10_ErrorMeansBothNil ==
    IsParseDurationCall =>
        /\ cur.res.err # NilErr => cur.res.from = NilTime /\ cur.res.to = NilTime
        /\ (TwoSlots /\ Len(Slot(1)) = 1 /\ Len(Slot(2)) = 1
              /\ ~IsTimestampType(Slot(1)[1])) => cur.res.err = WrongType("from")
        /\ (TwoSlots /\ Len(Slot(1)) = 1 /\ Len(Slot(2)) = 1
              /\ IsTimestampType(Slot(1)[1]) /\ ~IsTimestampType(Slot(2)[1])) =>
                    cur.res.err = WrongType("to")

C10_Witness ==
    /\ TwoSlots
    /\ Len(Slot(1)) = 1 /\ Len(Slot(2)) = 1
    /\ Slot(1)[1] = Val(WrappedPtr, <<Y2024>>)
    /\ ~IsTimestampType(Slot(2)[1])
    /\ cur.res = Failed(WrongType("to"))

(* ===================== properties of concurrent calls =================== *)

RECURSIVE BagOfSeq(_)
BagOfSeq(seq) ==
    IF seq = <<>> THEN EmptyBag ELSE SetToBag({Head(seq)}) (+) BagOfSeq(Tail(seq))

Returned == {w \in Workers : pc[w] = "done" /\ call[w].op = "Record"}

\* what worker w's call writes when it runs alone: its measurements or its log entries
Alone(w, what) ==
    LET eff == RecordEffect(g, call[w].taskRun)
    IN  BagOfSeq(IF what = "emits" THEN eff.emits ELSE eff.logs)

RECURSIVE SumOver(_, _)
SumOver(S, what) ==
    IF S = {} THEN EmptyBag
    ELSE LET w == CHOOSE x \in S : TRUE IN Alone(w, what) (+) SumOver(S \ {w}, what)

\* C7: under every interleaving of Record and Clean calls no step writes the
\* metric's fields, so the accessors keep their construction-time results, and
\* the measurements and log entries written so far are exactly those that the
\* calls that have returned write when each runs alone on its own record.
C7_CallsAreIndependent ==
    /\ [][g' = g /\ views' = views]_vars
    /\ [](g = NewGenericTaskRunHistogram(g.TaskMetric, g.Resource, g.Monitor))
    /\ [](BagOfSeq(backend) = SumOver(Returned, "emits"))
    /\ [](BagOfSeq(log) = SumOver(Returned, "logs"))

\* two Record calls, both returned, the second one to start having emitted
\* first, next to a skipped one
C7_Witness ==
    /\ \A w \in {1, 2} : pc[w] = "done" /\ call[w].op = "Record"
    /\ Resolved(g, call[1].taskRun)
    /\ Resolved(g, call[2].taskRun)
    /\ call[1].taskRun # call[2].taskRun
    /\ Len(backend) = 2
    /\ backend[1] = RecordEffect(g, call[2].taskRun).emits[1]

====
